---- MODULE Spec2Model ----
(***************************************************************************)
(* Model of the Lipinski Rule-of-Five analyzer: detect_smiles_column and   *)
(* analyze_lipinski (utils/lipinski) and the load -> detect -> analyze     *)
(* script of app.py.                                                       *)
(*                                                                         *)
(* Strings are sequences of one-character strings, so that re.sub,         *)
(* str.lower, str.strip and the `in` substring test are computed           *)
(* character by character.  A table cell, and a value of the result        *)
(* table, is a record [t, n, s]: t is the kind of value, n its number      *)
(* (when it has one) and s its characters (when it is a string).           *)
(***************************************************************************)
EXTENDS Integers, Sequences, FiniteSets, TLC

VARIABLES pc, df_columns, df_rows, detected, smiles_col,
          loc_columns, loc_rows, idx, mols, result_df, stats, errors

vars == <<pc, df_columns, df_rows, detected, smiles_col,
          loc_columns, loc_rows, idx, mols, result_df, stats, errors>>

\* Longest column list of the tables whose header is enumerated freely.
MaxCols == 3
\* Largest number of rows of the tables whose cells are enumerated.
MaxRows == 2

Range(s) == {s[k] : k \in 1..Len(s)}

(***************************************************************************)
(* Characters and the string functions the code calls.                     *)
(***************************************************************************)
UpperChars == <<"A","B","C","D","E","F","G","H","I","J","K","L","M",
                "N","O","P","Q","R","S","T","U","V","W","X","Y","Z">>
LowerChars == <<"a","b","c","d","e","f","g","h","i","j","k","l","m",
                "n","o","p","q","r","s","t","u","v","w","x","y","z">>
DigitChars == {"0","1","2","3","4","5","6","7","8","9"}
SpaceChars == {" ", "\t", "\n"}

\* The character class [a-zA-Z0-9] of the regular expression.
AlnumChars == Range(UpperChars) \cup Range(LowerChars) \cup DigitChars

IsAlnum(c) == c \in AlnumChars

\* re.sub(r'[^a-zA-Z0-9]', '', col)
re_sub(col) == SelectSeq(col, IsAlnum)

\* The lowercase letter of every uppercase letter.
ToLower ==
    [c \in Range(UpperChars) |->
        LowerChars[CHOOSE k \in 1..Len(UpperChars) : UpperChars[k] = c]]

LowerChar(c) == IF c \in DOMAIN ToLower THEN ToLower[c] ELSE c

\* str.lower()
lower(s) == [k \in 1..Len(s) |-> LowerChar(s[k])]

\* `name in s` of two strings
contains(name, s) ==
    \E k \in 0..(Len(s) - Len(name)) : SubSeq(s, k + 1, k + Len(name)) = name

RECURSIVE lstrip(_)
lstrip(s) == IF s # <<>> /\ Head(s) \in SpaceChars THEN lstrip(Tail(s)) ELSE s

RECURSIVE rstrip(_)
rstrip(s) ==
    IF s # <<>> /\ s[Len(s)] \in SpaceChars
    THEN rstrip(SubSeq(s, 1, Len(s) - 1))
    ELSE s

\* str.strip()
strip(s) == rstrip(lstrip(s))

(***************************************************************************)
(* Column names.                                                           *)
(***************************************************************************)
n_smiles        == <<"s","m","i","l","e","s">>
n_smi           == <<"s","m","i">>
n_smile         == <<"s","m","i","l","e">>
n_structure     == <<"s","t","r","u","c","t","u","r","e">>
n_SMILES        == <<"S","M","I","L","E","S">>
n_Structure     == <<"S","t","r","u","c","t","u","r","e">>
n_S_mi          == <<"S","_","m","i">>
n_s_mi2         == <<"s","_","m","i","2">>
n_isosmiles     == <<"i","s","o","s","m","i","l","e","s">>
n_Smiles2       == <<"S","m","i","l","e","s","2">>
n_ID            == <<"I","D">>
n_Name          == <<"N","a","m","e">>
n_MolWt         == <<"M","o","l","W","t">>
n_LogP          == <<"L","o","g","P">>
n_NumHDonors    == <<"N","u","m","H","D","o","n","o","r","s">>
n_NumHAcceptors == <<"N","u","m","H","A","c","c","e","p","t","o","r","s">>
n_LipinskiViolations ==
    <<"L","i","p","i","n","s","k","i","V","i","o","l","a","t","i","o","n","s">>
n_LipinskiResult ==
    <<"L","i","p","i","n","s","k","i","R","e","s","u","l","t">>
n_SMILES_Valid  == <<"S","M","I","L","E","S","_","V","a","l","i","d">>

(***************************************************************************)
(* detect_smiles_column                                                    *)
(***************************************************************************)
possible_names == <<n_smiles, n_smi, n_smile, n_structure>>

\* col_clean in possible_names
exact_match(col) == lower(re_sub(col)) \in Range(possible_names)

\* any(name in col_lower for name in possible_names)
partial_match(col) ==
    \E k \in 1..Len(possible_names) : contains(possible_names[k], lower(col))

\* The first loop over df.columns, from position k on: the position of the
\* column it returns, 0 when it runs to the end.
RECURSIVE exact_scan(_, _)
exact_scan(cols, k) ==
    IF k > Len(cols) THEN 0
    ELSE IF exact_match(cols[k]) THEN k
    ELSE exact_scan(cols, k + 1)

\* The second loop over df.columns.
RECURSIVE partial_scan(_, _)
partial_scan(cols, k) ==
    IF k > Len(cols) THEN 0
    ELSE IF partial_match(cols[k]) THEN k
    ELSE partial_scan(cols, k + 1)

Return(col) == [exc |-> "none", val |-> col]
ValueError  == [exc |-> "ValueError", val |-> <<>>]
NotCalled   == [exc |-> "notcalled", val |-> <<>>]

\* Mutations of detect_smiles_column.
RECURSIVE either_scan(_, _)
either_scan(cols, k) ==
    IF k > Len(cols) THEN 0
    ELSE IF exact_match(cols[k]) \/ partial_match(cols[k]) THEN k
    ELSE either_scan(cols, k + 1)

\* One loop that accepts an exact or a partial match.
detect_single_pass(cols) ==
    IF either_scan(cols, 1) # 0 THEN Return(cols[either_scan(cols, 1)])
    ELSE ValueError

RECURSIVE clean_partial_scan(_, _)
clean_partial_scan(cols, k) ==
    IF k > Len(cols) THEN 0
    ELSE IF \E j \in 1..Len(possible_names) :
                contains(possible_names[j], lower(re_sub(cols[k]))) THEN k
    ELSE clean_partial_scan(cols, k + 1)

\* The second loop searches the cleaned name instead of the lowercased one.
detect_clean_partial(cols) ==
    IF exact_scan(cols, 1) # 0 THEN Return(cols[exact_scan(cols, 1)])
    ELSE IF clean_partial_scan(cols, 1) # 0
         THEN Return(cols[clean_partial_scan(cols, 1)])
    ELSE ValueError

\* Falls back to the first column instead of raising.
detect_fallback_first(cols) ==
    IF exact_scan(cols, 1) # 0 THEN Return(cols[exact_scan(cols, 1)])
    ELSE IF partial_scan(cols, 1) # 0 THEN Return(cols[partial_scan(cols, 1)])
    ELSE IF cols # <<>> THEN Return(cols[1])
    ELSE ValueError

detect_smiles_column(cols) ==
    IF exact_scan(cols, 1) # 0 THEN Return(cols[exact_scan(cols, 1)])
    ELSE IF partial_scan(cols, 1) # 0 THEN Return(cols[partial_scan(cols, 1)])
    ELSE ValueError

(***************************************************************************)
(* Values of the table cells and of the result table.                      *)
(***************************************************************************)
NaN     == [t |-> "nan",  n |-> 0, s |-> <<>>]
None    == [t |-> "none", n |-> 0, s |-> <<>>]
Num(x)  == [t |-> "num",  n |-> x, s |-> <<>>]
Str(x)  == [t |-> "str",  n |-> 0, s |-> x]
Bool(b) == [t |-> "bool", n |-> IF b THEN 1 ELSE 0, s |-> <<>>]

s_empty   == <<>>
s_blank   == <<" ">>
s_CCO     == <<"C","C","O">>
s_Pass    == <<"P","a","s","s">>
s_Fail    == <<"F","a","i","l">>
s_Invalid == <<"I","n","v","a","l","i","d"," ","S","M","I","L","E","S">>

(***************************************************************************)
(* What Chem.MolFromSmiles can answer for a string, and what the           *)
(* descriptor functions answer for the molecule: a molecule is the record  *)
(* of its four descriptors, `raises` when computing them throws.           *)
(***************************************************************************)
Mol(mw, logp, hd, ha) ==
    [called |-> TRUE, parsed |-> TRUE, raises |-> FALSE,
     mw |-> mw, logp |-> logp, hd |-> hd, ha |-> ha]
NoMol ==
    [called |-> TRUE, parsed |-> FALSE, raises |-> FALSE,
     mw |-> 0, logp |-> 0, hd |-> 0, ha |-> 0]
BrokenMol ==
    [called |-> TRUE, parsed |-> TRUE, raises |-> TRUE,
     mw |-> 0, logp |-> 0, hd |-> 0, ha |-> 0]
\* The entry of `mols` for a row on which the parser is not called.
NoCall ==
    [called |-> FALSE, parsed |-> FALSE, raises |-> FALSE,
     mw |-> 0, logp |-> 0, hd |-> 0, ha |-> 0]

\* A small molecule, then one molecule for every number of violations, each
\* descriptor exactly at its limit in one and above it in another.
Molecules ==
    { Mol(46, 0, 1, 1),
      Mol(500, 5, 5, 10), Mol(501, 5, 5, 10), Mol(500, 6, 6, 10),
      Mol(501, 5, 6, 11), Mol(501, 6, 6, 11) }

MolFromSmiles == {NoMol, BrokenMol} \cup Molecules

(***************************************************************************)
(* analyze_lipinski                                                        *)
(***************************************************************************)
\* result_df[col] = value: a new column is appended, an existing one is
\* overwritten in place.
set_column(frame, col, value) ==
    [columns |-> IF col \in Range(frame.columns) THEN frame.columns
                 ELSE Append(frame.columns, col),
     rows    |-> [k \in 1..Len(frame.rows) |-> (col :> value) @@ frame.rows[k]]]

\* The order claimed for the computed columns, as a mutation of new_columns.
new_columns_valid_first ==
    << <<n_SMILES_Valid, Bool(FALSE)>>,
       <<n_MolWt, None>>, <<n_LogP, None>>,
       <<n_NumHDonors, None>>, <<n_NumHAcceptors, None>>,
       <<n_LipinskiViolations, Num(0)>>,
       <<n_LipinskiResult, Str(s_Invalid)>> >>

\* The columns the function initialises, in the order it does, with their
\* initial values.
new_columns ==
    << <<n_MolWt, None>>, <<n_LogP, None>>,
       <<n_NumHDonors, None>>, <<n_NumHAcceptors, None>>,
       <<n_LipinskiViolations, Num(0)>>,
       <<n_LipinskiResult, Str(s_Invalid)>>,
       <<n_SMILES_Valid, Bool(FALSE)>> >>

RECURSIVE init_columns(_, _)
init_columns(frame, k) ==
    IF k > Len(new_columns) THEN frame
    ELSE init_columns(set_column(frame, new_columns[k][1], new_columns[k][2]),
                      k + 1)

\* Mutation of skipped: the whitespace is not stripped.
skipped_no_strip(smiles) == smiles.t # "str" \/ smiles.s = <<>>

\* not isinstance(smiles, str) or not smiles.strip()
skipped(smiles) == smiles.t # "str" \/ strip(smiles.s) = <<>>

\* Mutation of count_violations: the weight limit is not strict.
count_violations_ge(mol) ==
    (IF mol.mw >= 500 THEN 1 ELSE 0) + (IF mol.logp > 5 THEN 1 ELSE 0)
    + (IF mol.hd > 5 THEN 1 ELSE 0) + (IF mol.ha > 10 THEN 1 ELSE 0)

\* violations = 0, then the four `if ...: violations += 1`
count_violations(mol) ==
    LET v0 == 0
        v1 == IF mol.mw   > 500 THEN v0 + 1 ELSE v0
        v2 == IF mol.logp > 5   THEN v1 + 1 ELSE v1
        v3 == IF mol.hd   > 5   THEN v2 + 1 ELSE v2
        v4 == IF mol.ha   > 10  THEN v3 + 1 ELSE v3
    IN  v4

\* The assignments of a row whose structure was parsed and described.
scored(out, mol) ==
    LET violations == count_violations(mol)
    IN  (n_SMILES_Valid :> Bool(TRUE))
        @@ (n_MolWt :> Num(mol.mw)) @@ (n_LogP :> Num(mol.logp))
        @@ (n_NumHDonors :> Num(mol.hd)) @@ (n_NumHAcceptors :> Num(mol.ha))
        @@ (n_LipinskiViolations :> Num(violations))
        @@ (n_LipinskiResult :>
                Str(IF violations = 0 THEN s_Pass ELSE s_Fail))
        @@ out

\* Mutation of loop_body: the row is marked valid before the parser's
\* answer is tested.
loop_body_valid_early(out, smiles, mol) ==
    IF skipped(smiles) THEN out
    ELSE IF ~mol.parsed THEN (n_SMILES_Valid :> Bool(TRUE)) @@ out
    ELSE scored(out, mol)

\* One iteration of the loop that completes: the row of result_df after it,
\* `out` being the row before it and `mol` the parser's answer.
loop_body(out, smiles, mol) ==
    IF skipped(smiles) THEN out
    ELSE IF ~mol.parsed THEN out
    ELSE scored(out, mol)

\* The iteration leaves the function by an exception of a descriptor call.
loop_raises(smiles, mol) == ~skipped(smiles) /\ mol.parsed /\ mol.raises

(***************************************************************************)
(* The tables read from the uploaded file.                                 *)
(***************************************************************************)
NamePool ==
    { n_smiles, n_SMILES, n_Structure, n_S_mi, n_s_mi2, n_isosmiles,
      n_Smiles2, n_ID, n_Name, n_SMILES_Valid }

RECURSIVE Headers(_)
Headers(n) ==
    IF n = 0 THEN { <<>> }
    ELSE Headers(n - 1) \cup
         { Append(h, c) : h \in {g \in Headers(n - 1) : Len(g) = n - 1},
                          c \in NamePool }

DistinctHeaders(n) ==
    { h \in Headers(n) : \A i, j \in 1..Len(h) : i # j => h[i] # h[j] }

TableHeaders ==
    { <<n_smiles>>, <<n_ID, n_SMILES>>, <<n_MolWt, n_Structure>>,
      <<n_SMILES_Valid, n_LipinskiResult>>, <<n_ID, n_Name>> }

Cells      == { NaN, Num(7), Str(s_empty), Str(s_blank), Str(s_CCO) }
OtherCells == { Num(7), Num(8) }

\* The rows of a table whose column `rich` takes every kind of cell.
RowsOf(cols, rich) ==
    { r \in [Range(cols) -> Cells \cup OtherCells] :
        \A c \in Range(cols) :
            r[c] \in (IF c = rich THEN Cells ELSE OtherCells) }

\* Every header of up to MaxCols distinct names with no rows (a file that
\* holds only its header line; the empty header is the empty DataFrame, which
\* detect_smiles_column accepts), and the tables of the headers above with
\* one to MaxRows rows.
Tables ==
    { [columns |-> h, rows |-> <<>>] : h \in DistinctHeaders(MaxCols) }
    \cup
    UNION { UNION { { [columns |-> h, rows |-> rs] :
                        rs \in UNION { [1..n -> RowsOf(h, rich)] :
                                       n \in 1..MaxRows } } :
                    rich \in Range(h) } :
            h \in TableHeaders }

(***************************************************************************)
(* The script of app.py, one run of it on an uploaded file.                *)
(***************************************************************************)
NoStats == [set |-> FALSE, total |-> 0, valid |-> 0, pass |-> 0, fail |-> 0]

msg_no_column == "No valid SMILES column found. Please ensure your CSV contains a column with SMILES strings."
msg_analysis  == "An error occurred during analysis"
msg_read      == "Error reading CSV file"

Init ==
    /\ pc = "start"
    /\ df_columns = <<>>
    /\ df_rows = <<>>
    /\ detected = NotCalled
    /\ smiles_col = <<>>
    /\ loc_columns = <<>>
    /\ loc_rows = <<>>
    /\ idx = 0
    /\ mols = <<>>
    /\ result_df = [returned |-> FALSE, columns |-> <<>>, rows |-> <<>>]
    /\ stats = NoStats
    /\ errors = <<>>

\* df = pd.read_csv(uploaded_file)
Load ==
    /\ pc = "start"
    /\ \E table \in Tables :
          /\ df_columns' = table.columns
          /\ df_rows' = table.rows
    /\ pc' = "loaded"
    /\ UNCHANGED <<detected, smiles_col, loc_columns, loc_rows, idx, mols,
                   result_df, stats, errors>>

\* pd.read_csv raises: the outer handler reports it.
LoadFails ==
    /\ pc = "start"
    /\ errors' = Append(errors, msg_read)
    /\ pc' = "readerror"
    /\ UNCHANGED <<df_columns, df_rows, detected, smiles_col, loc_columns,
                   loc_rows, idx, mols, result_df, stats>>

\* Mutation of st_stop: the script goes on after the error is shown.
st_stop_missing == "detected"

\* st.stop(): the run of the script ends here.
st_stop == "stopped"

\* default_smiles_col = detect_smiles_column(df) returns a column.
DetectReturns ==
    /\ pc = "loaded"
    /\ detect_smiles_column(df_columns).exc = "none"
    /\ detected' = detect_smiles_column(df_columns)
    /\ pc' = "detected"
    /\ UNCHANGED <<df_columns, df_rows, smiles_col, loc_columns, loc_rows,
                   idx, mols, result_df, stats, errors>>

\* detect_smiles_column(df) raises ValueError: st.error(str(e)); st.stop()
DetectRaises ==
    /\ pc = "loaded"
    /\ detect_smiles_column(df_columns).exc = "ValueError"
    /\ detected' = detect_smiles_column(df_columns)
    /\ errors' = Append(errors, msg_no_column)
    /\ pc' = st_stop
    /\ UNCHANGED <<df_columns, df_rows, smiles_col, loc_columns, loc_rows,
                   idx, mols, result_df, stats>>

\* smiles_col = st.selectbox(...): the detected column is the default, the
\* user may pick any column of the table.
Select ==
    /\ pc = "detected"
    /\ \E col \in Range(df_columns) : smiles_col' = col
    /\ pc' = "selected"
    /\ UNCHANGED <<df_columns, df_rows, detected, loc_columns, loc_rows,
                   idx, mols, result_df, stats, errors>>

\* analyze_lipinski(df, smiles_col) up to its loop: the copy of df and the
\* seven initialised columns.
AnalyzeStart ==
    /\ pc = "selected"
    /\ LET frame == init_columns([columns |-> df_columns, rows |-> df_rows], 1)
       IN  /\ loc_columns' = frame.columns
           /\ loc_rows' = frame.rows
    /\ idx' = 1
    /\ mols' = <<>>
    /\ pc' = "analyzing"
    /\ UNCHANGED <<df_columns, df_rows, detected, smiles_col, result_df,
                   stats, errors>>

\* One iteration of `for idx, row in df.iterrows()` that completes.
AnalyzeRow ==
    /\ pc = "analyzing"
    /\ idx <= Len(df_rows)
    /\ \E mol \in MolFromSmiles :
          LET smiles == df_rows[idx][smiles_col]
          IN  /\ ~loop_raises(smiles, mol)
              /\ loc_rows' = [loc_rows EXCEPT
                                ![idx] = loop_body(@, smiles, mol)]
              /\ mols' = Append(mols, IF skipped(smiles) THEN NoCall ELSE mol)
    /\ idx' = idx + 1
    /\ UNCHANGED <<pc, df_columns, df_rows, detected, smiles_col,
                   loc_columns, stats, result_df, errors>>

\* An iteration in which a descriptor call throws: the exception leaves
\* analyze_lipinski and is reported by the handler around the analysis.
AnalyzeRaises ==
    /\ pc = "analyzing"
    /\ idx <= Len(df_rows)
    /\ \E mol \in MolFromSmiles :
          /\ loop_raises(df_rows[idx][smiles_col], mol)
          /\ mols' = Append(mols, mol)
    /\ loc_columns' = <<>>
    /\ loc_rows' = <<>>
    /\ errors' = Append(errors, msg_analysis)
    /\ pc' = "failed"
    /\ UNCHANGED <<df_columns, df_rows, detected, smiles_col, idx,
                   result_df, stats>>

CountRows(rows, col, value) ==
    Cardinality({k \in 1..Len(rows) : rows[k][col] = value})

\* return result_df, and the four statistics the script derives from it.
AnalyzeReturns ==
    /\ pc = "analyzing"
    /\ idx > Len(df_rows)
    /\ result_df' = [returned |-> TRUE, columns |-> loc_columns,
                     rows |-> loc_rows]
    /\ stats' = [set   |-> TRUE,
                 total |-> Len(loc_rows),
                 valid |-> CountRows(loc_rows, n_SMILES_Valid, Bool(TRUE)),
                 pass  |-> CountRows(loc_rows, n_LipinskiResult, Str(s_Pass)),
                 fail  |-> CountRows(loc_rows, n_LipinskiResult, Str(s_Fail))]
    /\ pc' = "done"
    /\ UNCHANGED <<df_columns, df_rows, detected, smiles_col, loc_columns,
                   loc_rows, idx, mols, errors>>

Next ==
    \/ Load
    \/ LoadFails
    \/ DetectReturns
    \/ DetectRaises
    \/ Select
    \/ AnalyzeStart
    \/ AnalyzeRow
    \/ AnalyzeRaises
    \/ AnalyzeReturns

Spec == Init /\ [][Next]_vars

(***************************************************************************)
(* Properties.                                                             *)
(***************************************************************************)
Canonical == {n_smiles, n_smi, n_smile, n_structure}

\* The name with every character outside [a-zA-Z0-9] removed, lowercased,
\* is a canonical term.
NormalizesToCanonical(col) == lower(re_sub(col)) \in Canonical

\* The lowercased name, nothing removed, has a canonical term inside it.
HasCanonicalInside(col) ==
    \E term \in Canonical :
        \E a \in 0..(Len(col) - Len(term)) :
            \A k \in 1..Len(term) : LowerChar(col[a + k]) = term[k]

DetectCalled == detected.exc # "notcalled"

\* C1: when some column name normalizes exactly to a canonical term, detect
\* returns the earliest such column in input order, whatever the columns
\* before it contain as substrings.
C1_ExactMatchFirst ==
    DetectCalled =>
        \A i \in 1..Len(df_columns) :
            ( /\ NormalizesToCanonical(df_columns[i])
              /\ \A j \in 1..(i - 1) : ~NormalizesToCanonical(df_columns[j]) )
            => detected = Return(df_columns[i])

\* A substring-only column, then two exact columns: the first exact one is
\* returned.
C1_Witness ==
    /\ pc = "detected"
    /\ Len(df_columns) = 3
    /\ HasCanonicalInside(df_columns[1])
    /\ ~NormalizesToCanonical(df_columns[1])
    /\ NormalizesToCanonical(df_columns[2])
    /\ NormalizesToCanonical(df_columns[3])
    /\ detected = Return(df_columns[2])

\* C2: when no column name normalizes exactly to a canonical term, detect
\* returns the earliest column whose lowercased, unstripped name contains a
\* canonical term.
C2_SubstringMatchFirst ==
    ( /\ DetectCalled
      /\ \A i \in 1..Len(df_columns) : ~NormalizesToCanonical(df_columns[i]) )
    => \A i \in 1..Len(df_columns) :
            ( /\ HasCanonicalInside(df_columns[i])
              /\ \A j \in 1..(i - 1) : ~HasCanonicalInside(df_columns[j]) )
            => detected = Return(df_columns[i])

\* A column that contains a term only once its punctuation is removed, then
\* two columns that contain one as written: the first of these is returned.
C2_Witness ==
    /\ pc = "detected"
    /\ Len(df_columns) = 3
    /\ \A i \in 1..3 : ~NormalizesToCanonical(df_columns[i])
    /\ df_columns[1] = n_s_mi2
    /\ HasCanonicalInside(df_columns[2])
    /\ HasCanonicalInside(df_columns[3])
    /\ detected = Return(df_columns[2])

\* C3: detect fails, with the ValueError that carries the message and with
\* no column returned, exactly when no column matches in either phase.
C3_NoColumnFound ==
    DetectCalled =>
        /\ detected = ValueError
           <=> \A i \in 1..Len(df_columns) :
                  /\ ~NormalizesToCanonical(df_columns[i])
                  /\ ~HasCanonicalInside(df_columns[i])
        /\ detected # ValueError => detected.val \in Range(df_columns)
        /\ detected = ValueError
           => /\ errors = <<msg_no_column>>
              /\ msg_no_column # ""

\* Two columns, none matching: the error is raised and shown.
C3_Witness ==
    /\ detected = ValueError
    /\ Len(df_columns) >= 2
    /\ n_s_mi2 \in Range(df_columns)
    /\ errors = <<msg_no_column>>

\* C4: when detect fails the failure is reported once and the run halts
\* with no analysis started and no report; the analysis only ever runs
\* after detect has returned a column of the table.
C4_DetectFailureHalts ==
    /\ detected = ValueError
       => /\ pc = "stopped"
          /\ errors = <<msg_no_column>>
          /\ idx = 0 /\ loc_columns = <<>> /\ loc_rows = <<>> /\ mols = <<>>
          /\ ~result_df.returned
          /\ ~stats.set
    /\ pc \in {"selected", "analyzing", "done", "failed"}
       => /\ detected.exc = "none"
          /\ detected.val \in Range(df_columns)

\* Detection failed on a table that has rows to analyse.
C4_Witness ==
    /\ pc = "stopped"
    /\ detected = ValueError
    /\ Len(df_rows) = MaxRows

SmilesCell(k) == df_rows[k][smiles_col]

IsInvalidRow(row) ==
    /\ row[n_SMILES_Valid] = Bool(FALSE)
    /\ row[n_MolWt] = None /\ row[n_LogP] = None
    /\ row[n_NumHDonors] = None /\ row[n_NumHAcceptors] = None
    /\ row[n_LipinskiViolations] = Num(0)
    /\ row[n_LipinskiResult] = Str(s_Invalid)

BlankCell(cell) ==
    \/ cell.t # "str"
    \/ \A k \in 1..Len(cell.s) : cell.s[k] \in SpaceChars

\* C5: a row whose SMILES cell is missing, not a string, empty or
\* whitespace-only, or a string the parser returns no structure for, is an
\* invalid row of the returned table.
C5_InvalidRows ==
    pc = "done" =>
        \A k \in 1..Len(df_rows) :
            ( \/ BlankCell(SmilesCell(k))
              \/ (mols[k].called /\ ~mols[k].parsed) )
            => /\ IsInvalidRow(result_df.rows[k])
               /\ BlankCell(SmilesCell(k)) => ~mols[k].called

\* A whitespace-only cell and a string the parser rejects, in one table.
C5_Witness ==
    /\ pc = "done"
    /\ Len(df_rows) = 2
    /\ SmilesCell(1) = Str(s_blank)
    /\ SmilesCell(2) = Str(s_CCO) /\ mols[2] = NoMol
    /\ IsInvalidRow(result_df.rows[1]) /\ IsInvalidRow(result_df.rows[2])

Exceeds(mol) ==
    { x \in {"molWt", "logP", "hDonors", "hAcceptors"} :
        \/ x = "molWt" /\ mol.mw > 500
        \/ x = "logP" /\ mol.logp > 5
        \/ x = "hDonors" /\ mol.hd > 5
        \/ x = "hAcceptors" /\ mol.ha > 10 }

\* C6: a row whose SMILES parses is valid, its violation count is the number
\* of the four strict threshold tests that are true, and its result is Pass
\* exactly when that number is 0, Fail otherwise.
C6_ViolationCount ==
    pc = "done" =>
        \A k \in 1..Len(df_rows) :
            (mols[k].called /\ mols[k].parsed)
            => LET row == result_df.rows[k]
                   count == Cardinality(Exceeds(mols[k]))
               IN  /\ row[n_SMILES_Valid] = Bool(TRUE)
                   /\ row[n_LipinskiViolations] = Num(count)
                   /\ count \in 0..4
                   /\ row[n_LipinskiResult] = Str(s_Pass) <=> count = 0
                   /\ row[n_LipinskiResult] = Str(s_Fail) <=> count > 0

\* A molecule exactly at the four thresholds and one above all of them.
C6_Witness ==
    /\ pc = "done"
    /\ Len(df_rows) = 2
    /\ mols[1] = Mol(500, 5, 5, 10)
    /\ mols[2] = Mol(501, 6, 6, 11)
    /\ result_df.rows[1][n_LipinskiResult] = Str(s_Pass)
    /\ result_df.rows[2][n_LipinskiViolations] = Num(4)

\* C7: in every returned report valid + invalid = total and
\* pass + fail = valid, and a row is Pass or Fail exactly when it is valid.
C7_AggregateCounts ==
    pc = "done" =>
        LET rows == result_df.rows
            invalid == CountRows(rows, n_LipinskiResult, Str(s_Invalid))
        IN  /\ stats.total = Len(df_rows)
            /\ stats.valid + invalid = stats.total
            /\ stats.pass + stats.fail = stats.valid
            /\ \A k \in 1..Len(rows) :
                  rows[k][n_LipinskiResult] \in {Str(s_Pass), Str(s_Fail)}
                  <=> rows[k][n_SMILES_Valid] = Bool(TRUE)

\* A report with a valid and an invalid row, the invalid one rejected by
\* the parser.
C7_Witness ==
    /\ pc = "done"
    /\ stats.total = 2 /\ stats.valid = 1
    /\ \E k \in 1..Len(mols) : mols[k] = NoMol

\* C8: the returned table has one row per input row, in order, and every
\* input column of every row keeps its input value, also when the column
\* is named like a computed column.
C8_OriginalCellsUntouched ==
    pc = "done" =>
        /\ Len(result_df.rows) = Len(df_rows)
        /\ \A k \in 1..Len(df_rows) :
              \A col \in Range(df_columns) :
                  \/ result_df.rows[k][col] = df_rows[k][col]
                  \/ {result_df.rows[k][col], df_rows[k][col]} = {NaN, None}

\* C9, as claimed: the output columns are the input columns followed by the
\* seven computed columns, SMILES_Valid first.
C9_ColumnsValidFirst ==
    pc = "done" =>
        result_df.columns =
            df_columns \o <<n_SMILES_Valid, n_MolWt, n_LogP, n_NumHDonors,
                            n_NumHAcceptors, n_LipinskiViolations,
                            n_LipinskiResult>>

NotAnInputColumn(col) == col \notin Range(df_columns)

\* C9, amended: the output columns are the input columns in their order,
\* followed by MolWt, LogP, NumHDonors, NumHAcceptors, LipinskiViolations,
\* LipinskiResult, SMILES_Valid in this order, less those of the seven that
\* are already input columns.
C9_ColumnsValidLast ==
    pc = "done" =>
        result_df.columns =
            df_columns \o
            SelectSeq(<<n_MolWt, n_LogP, n_NumHDonors, n_NumHAcceptors,
                        n_LipinskiViolations, n_LipinskiResult,
                        n_SMILES_Valid>>, NotAnInputColumn)

\* A table of two columns, neither named like a computed one.
C9_Witness ==
    /\ pc = "done"
    /\ Len(df_columns) = 2
    /\ Len(df_rows) > 0
    /\ Len(result_df.columns) = 9

\* C10: when the descriptor computation fails on a row, the analysis still
\* returns a report of every input row, in which that row is invalid.
C10_RowFailureIsolated ==
    ( /\ pc \in {"done", "failed"}
      /\ \E k \in 1..Len(mols) : mols[k].raises )
    => /\ result_df.returned
       /\ Len(result_df.rows) = Len(df_rows)
       /\ \A k \in 1..Len(mols) :
             mols[k].raises => IsInvalidRow(result_df.rows[k])

====
